---- MODULE Spec2Model ----
(***************************************************************************)
(* Tic-Tac-Toe (src/src/main.rs): the Game engine (Game::new, Game::play,  *)
(* the queries is_complete / is_tie / game_over), the two engine tests and *)
(* the driving loop of main().                                             *)
(***************************************************************************)
EXTENDS Integers, Sequences, FiniteSets

VARIABLES
    game,     \* the Game value: [board, player, winner, turn, over]
    caller,   \* who owns the Game: "main", one of the tests, or a client of the API
    pc,       \* position of the caller in its code
    stmt,     \* number of play statements a test has executed
    index,    \* main: the index play panicked on (-1: no panic)
    out,      \* main: the last message printed
    ret,      \* the value returned by the last query or asserted by a test ({}: none yet)
    wrapped   \* turn has wrapped from 255 to 0: the build has no overflow checks

vars == <<game, caller, pc, stmt, index, out, ret, wrapped>>

(* ------------------------------ bounds --------------------------------- *)

\* The operator types the decimal numerals of 0..MaxIndex (with or without a
\* sign), besides lines that hold no number.
MaxIndex == 10

(* ------------------------------- Tile ---------------------------------- *)

X == "X"
O == "O"
Empty == "Empty"

Tile == {X, O, Empty}

Idx == 0..2

\* Row::new(): tiles: [Tile::Empty; 3]
Row_new == [tiles |-> [c \in Idx |-> Empty]]

(* ---------------------------- Completable ------------------------------ *)

\* impl Completable for [Tile; 3]: self.iter().all(|t| *t == tile)
Tiles_is_complete(tiles, tile) == \A c \in Idx : tiles[c] = tile

\* impl Completable for Row: self.tiles.is_complete(tile)
Row_is_complete(row, tile) == Tiles_is_complete(row.tiles, tile)

\* impl Completable for Diagonal: self.tiles.iter().all(|&t| *t == tile)
Diagonal_is_complete(diag, tile) == \A c \in Idx : diag.tiles[c] = tile

(* -------------------------------- Game --------------------------------- *)

\* Mutant of Game_new: the turn counter starts at 1.
Game_new_turn_one ==
    [board  |-> [r \in Idx |-> Row_new],
     player |-> X,
     winner |-> Empty,
     turn   |-> 1,
     over   |-> FALSE]

\* Game::new()
Game_new ==
    [board  |-> [r \in Idx |-> Row_new],
     player |-> X,
     winner |-> Empty,
     turn   |-> 0,
     over   |-> FALSE]

\* Game::diagonals(): the two diagonals, as arrays of the referenced tiles
diagonals(self) ==
    [d \in 0..1 |->
        IF d = 0
        THEN [tiles |-> [c \in Idx |->
                CASE c = 0 -> self.board[0].tiles[0]
                  [] c = 1 -> self.board[1].tiles[1]
                  [] c = 2 -> self.board[2].tiles[2]]]
        ELSE [tiles |-> [c \in Idx |->
                CASE c = 0 -> self.board[0].tiles[2]
                  [] c = 1 -> self.board[1].tiles[1]
                  [] c = 2 -> self.board[2].tiles[0]]]]

\* Mutant of cols: the third column is built from tiles[1] again.
cols_repeat(self) ==
    [k \in Idx |->
        [tiles |-> [c \in Idx |-> self.board[c].tiles[IF k = 2 THEN 1 ELSE k]]]]

\* Game::cols(): the three columns, each copied into a Row
cols(self) ==
    [k \in Idx |->
        CASE k = 0 -> [tiles |-> [c \in Idx |->
                CASE c = 0 -> self.board[0].tiles[0]
                  [] c = 1 -> self.board[1].tiles[0]
                  [] c = 2 -> self.board[2].tiles[0]]]
          [] k = 1 -> [tiles |-> [c \in Idx |->
                CASE c = 0 -> self.board[0].tiles[1]
                  [] c = 1 -> self.board[1].tiles[1]
                  [] c = 2 -> self.board[2].tiles[1]]]
          [] k = 2 -> [tiles |-> [c \in Idx |->
                CASE c = 0 -> self.board[0].tiles[2]
                  [] c = 1 -> self.board[1].tiles[2]
                  [] c = 2 -> self.board[2].tiles[2]]]]

\* Game::any_row_complete
any_row_complete(self, tile) ==
    \E r \in Idx : Row_is_complete(self.board[r], tile)

\* Mutant of any_col_complete: the rows are inspected instead of the columns.
any_col_complete_rows(self, tile) ==
    \E r \in Idx : Row_is_complete(self.board[r], tile)

\* Game::any_col_complete
any_col_complete(self, tile) ==
    \E k \in Idx : Row_is_complete(cols(self)[k], tile)

\* Mutant of any_diagonal_complete: only the first diagonal is inspected.
any_diagonal_complete_first(self, tile) ==
    Diagonal_is_complete(diagonals(self)[0], tile)

\* Game::any_diagonal_complete
any_diagonal_complete(self, tile) ==
    \E d \in 0..1 : Diagonal_is_complete(diagonals(self)[d], tile)

\* Game::is_complete
is_complete(self) ==
    \/ any_row_complete(self, X)
    \/ any_row_complete(self, O)
    \/ any_diagonal_complete(self, X)
    \/ any_diagonal_complete(self, O)
    \/ any_col_complete(self, X)
    \/ any_col_complete(self, O)

\* Mutant of is_tie: the tie is declared one turn late.
is_tie_late(self) == self.turn = 10

\* Game::is_tie
is_tie(self) == self.turn = 9

\* Mutant of game_over: the loop condition only sees the tie.
game_over_tie_only(self) == is_tie(self)

\* Game::game_over
game_over(self) == self.over

\* Mutant of mark_and_count: row and column are exchanged.
mark_and_count_transposed(self, i) ==
    LET row    == i % 3
        col    == i \div 3
        marked == IF self.board[row].tiles[col] = Empty
                  THEN [self EXCEPT !.board[row].tiles[col] = self.player]
                  ELSE self
    IN  [marked EXCEPT !.turn = (marked.turn + 1) % 256]

\* Game::play, lines 83-88: mark the cell if it is Empty.
mark(self, i) ==
    LET row == i \div 3
        col == i % 3
    IN  IF self.board[row].tiles[col] = Empty
        THEN [self EXCEPT !.board[row].tiles[col] = self.player]
        ELSE self

\* Game::play, lines 83-89: mark the cell if it is Empty, count the turn.
\* turn is a u8: at 255 the addition wraps to 0 in a build without overflow
\* checks (release) and panics in a build with them (debug): play_panics.
mark_and_count(self, i) ==
    LET marked == mark(self, i)
    IN  [marked EXCEPT !.turn = (marked.turn + 1) % 256]

\* Game::play panics: board[row] is indexed out of bounds when index / 3 > 2
\* (col = index % 3 is always in range); self.turn += 1 overflows at 255 in
\* a build with overflow checks; and the toggle of line 97 panics on an
\* Empty player.
play_panics(self, i, overflow_checks) ==
    \/ (i \div 3) > 2
    \/ overflow_checks /\ self.turn = 255
    \/ LET g == mark_and_count(self, i)
       IN  g.player = Empty /\ ~is_complete(g) /\ ~is_tie(g)

\* The Game a panicking call leaves behind: untouched when the index is out
\* of bounds (line 86), marked but not counted when the addition overflows
\* (line 89), marked and counted when the player is Empty (line 100).
play_unwind(self, i, overflow_checks) ==
    IF (i \div 3) > 2
    THEN self
    ELSE IF overflow_checks /\ self.turn = 255
    THEN mark(self, i)
    ELSE mark_and_count(self, i)

\* Mutant of toggle: both arms of the match yield O.
toggle_stuck(p) == O

\* Game::play, lines 97-101: the other player
toggle(p) == IF p = X THEN O ELSE X

\* Mutant of play: the player is toggled before the outcome is evaluated.
play_toggle_first(self, i) ==
    LET m == mark_and_count(self, i)
        g == [m EXCEPT !.player = toggle(m.player)]
    IN  IF is_complete(g)
        THEN [g EXCEPT !.winner = g.player, !.over = TRUE]
        ELSE IF is_tie(g)
        THEN [g EXCEPT !.over = TRUE]
        ELSE g

\* Mutant of play: the win is credited to the other player.
play_credit_other(self, i) ==
    LET g == mark_and_count(self, i)
    IN  IF is_complete(g)
        THEN [g EXCEPT !.winner = toggle(g.player), !.over = TRUE]
        ELSE IF is_tie(g)
        THEN [g EXCEPT !.over = TRUE]
        ELSE [g EXCEPT !.player = toggle(g.player)]

\* Mutant of play: the tie is tested before the win.
play_tie_first(self, i) ==
    LET g == mark_and_count(self, i)
    IN  IF is_tie(g)
        THEN [g EXCEPT !.over = TRUE]
        ELSE IF is_complete(g)
        THEN [g EXCEPT !.winner = g.player, !.over = TRUE]
        ELSE [g EXCEPT !.player = toggle(g.player)]

\* Game::play, for a call that returns
play(self, i) ==
    LET g == mark_and_count(self, i)
    IN  IF is_complete(g)
        THEN [g EXCEPT !.winner = g.player, !.over = TRUE]
        ELSE IF is_tie(g)
        THEN [g EXCEPT !.over = TRUE]
        ELSE [g EXCEPT !.player = toggle(g.player)]

(* ------------------------- callers of the engine ----------------------- *)

\* The statements of the two engine tests: the indices they play in order.
test_game_is_complete == <<0, 1, 3, 2, 6>>
test_game_is_tie == <<0, 1, 2, 3, 4, 5, 6, 7, 8>>

Tests == {"test_game_is_complete", "test_game_is_tie"}

Script(t) ==
    IF t = "test_game_is_complete" THEN test_game_is_complete ELSE test_game_is_tie

\* The value the test asserts after its play statements.
Asserted(t, g) ==
    IF t = "test_game_is_complete" THEN is_complete(g) ELSE is_tie(g)

\* Whether the build that runs has overflow checks: either, as long as the
\* run has not shown which; a run in which turn has wrapped has none.
OverflowChecks == IF wrapped THEN {FALSE} ELSE BOOLEAN

\* A call game.play(i) made by the current caller.
Call(i) ==
    \E overflow_checks \in OverflowChecks :
        IF play_panics(game, i, overflow_checks)
        THEN /\ pc' = "panic"
             /\ game' = play_unwind(game, i, overflow_checks)
             /\ wrapped' = wrapped
        ELSE /\ pc' = pc
             /\ game' = play(game, i)
             /\ wrapped' = (wrapped \/ game.turn = 255)

\* One play statement of a test.
TestPlay ==
    /\ caller \in Tests
    /\ pc = "run"
    /\ stmt < Len(Script(caller))
    /\ Call(Script(caller)[stmt + 1])
    /\ stmt' = stmt + 1
    /\ UNCHANGED <<caller, index, out, ret>>

\* The closing assert! of a test.
TestAssert ==
    /\ caller \in Tests
    /\ pc = "run"
    /\ stmt = Len(Script(caller))
    /\ ret' = {Asserted(caller, game)}
    /\ pc' = IF Asserted(caller, game) THEN "passed" ELSE "panic"
    /\ UNCHANGED <<game, caller, stmt, index, out, wrapped>>

\* A client that calls play with any index in 0..8 for as long as the game
\* is not over: the loop of main (while !game.game_over(), lines 209-216)
\* without its input and output.
LoopPlay ==
    /\ caller = "loop"
    /\ pc = "run"
    /\ ~game_over(game)
    /\ \E i \in 0..8 : Call(i)
    /\ UNCHANGED <<caller, stmt, index, out, ret>>

\* A careful client only ever targets an Empty cell.
CarefulPlay ==
    /\ caller = "careful"
    /\ pc = "run"
    /\ \E i \in 0..8 :
          /\ game.board[i \div 3].tiles[i % 3] = Empty
          /\ Call(i)
    /\ UNCHANGED <<caller, stmt, index, out, ret>>

\* The indices of the client that never stops calling: the cells of the top
\* row and the first index past the grid.
PersistentIndices == {0, 1, 2, 9}

\* A client of the API that goes on calling play (pub fn: nothing limits the
\* number of calls), whether or not the game is over.
PersistentPlay ==
    /\ caller = "persistent"
    /\ pc = "run"
    /\ \E i \in PersistentIndices : Call(i)
    /\ UNCHANGED <<caller, stmt, index, out, ret>>

Init ==
    /\ game = Game_new
    /\ caller \in Tests \cup {"loop", "careful", "persistent"}
    /\ pc = "run"
    /\ stmt = 0
    /\ index = -1
    /\ out = ""
    /\ ret = {}
    /\ wrapped = FALSE

Next == TestPlay \/ TestAssert \/ LoopPlay \/ CarefulPlay \/ PersistentPlay

Spec == Init /\ [][Next]_vars

(* ------------------------------ main ----------------------------------- *)

Digits == <<"0", "1", "2", "3", "4", "5", "6", "7", "8", "9">>

IsDigit(ch) == \E d \in 1..10 : Digits[d] = ch

DigitVal(ch) == (CHOOSE d \in 1..10 : Digits[d] = ch) - 1

\* The decimal numeral of n, as the operator types it.
RECURSIVE Decimal(_)
Decimal(n) ==
    IF n < 10 THEN <<Digits[n + 1]>> ELSE Decimal(n \div 10) \o <<Digits[(n % 10) + 1]>>

\* char::is_whitespace: the code points with the property White_Space. A
\* character is a one-element string; one that has no escape in a string is
\* written by its code point.
White_Space ==
    {"\t", "\n", "U+000B", "\f", "\r", " ", "U+0085", "U+00A0", "U+1680",
     "U+2000", "U+2001", "U+2002", "U+2003", "U+2004", "U+2005", "U+2006",
     "U+2007", "U+2008", "U+2009", "U+200A", "U+2028", "U+2029", "U+202F",
     "U+205F", "U+3000"}

IsSpace(ch) == ch \in White_Space

\* str::trim: drop the leading and the trailing whitespace
RECURSIVE trim_start(_)
trim_start(s) ==
    IF s # <<>> /\ IsSpace(Head(s)) THEN trim_start(Tail(s)) ELSE s

RECURSIVE trim_end(_)
trim_end(s) ==
    IF s # <<>> /\ IsSpace(s[Len(s)]) THEN trim_end(SubSeq(s, 1, Len(s) - 1)) ELSE s

trim(s) == trim_end(trim_start(s))

\* usize::MAX (2^64 - 1, a 64-bit target), in decimal.
usize_MAX ==
    <<"1", "8", "4", "4", "6", "7", "4", "4", "0", "7",
      "3", "7", "0", "9", "5", "5", "1", "6", "1", "5">>

RECURSIVE strip_zeros(_)
strip_zeros(s) ==
    IF s # <<>> /\ Head(s) = "0" THEN strip_zeros(Tail(s)) ELSE s

\* The number written by the digits s is greater than usize::MAX: the
\* checked multiplication or addition of str::parse::<usize> overflows
\* (PosOverflow).
pos_overflow(s) ==
    LET t == strip_zeros(s)
    IN  \/ Len(t) > Len(usize_MAX)
        \/ /\ Len(t) = Len(usize_MAX)
           /\ \E k \in 1..Len(t) :
                 /\ DigitVal(t[k]) > DigitVal(usize_MAX[k])
                 /\ \A j \in 1..(k - 1) : t[j] = usize_MAX[j]

\* The digits of s read left to right in base 10.
RECURSIVE digits_value(_, _)
digits_value(s, acc) ==
    IF s = <<>> THEN acc ELSE digits_value(Tail(s), acc * 10 + DigitVal(Head(s)))

\* str::parse::<usize>: Err on the empty string, on a lone sign, on any
\* character that is not a digit (a leading '+' is accepted, a leading '-'
\* is not: usize is unsigned) and on a number greater than usize::MAX;
\* Ok(value) otherwise.
parse(s) ==
    LET digits == IF s # <<>> /\ Head(s) = "+" THEN Tail(s) ELSE s
    IN  IF s = <<>> \/ digits = <<>> \/ \E k \in 1..Len(digits) : ~IsDigit(digits[k])
        THEN [ok |-> FALSE, val |-> 0]
        ELSE IF pos_overflow(digits)
        THEN [ok |-> FALSE, val |-> 0]
        ELSE [ok |-> TRUE, val |-> digits_value(digits, 0)]

\* What the operator types before the newline: nothing, text that holds no
\* number, a numeral with a sign, with whitespace around it (a blank and a
\* tab before, the carriage return of a CRLF line ending after) or with a
\* letter after it, the numeral of usize::MAX + 1, and the numerals of
\* 0..MaxIndex.
Typed ==
    {<<>>, <<"a">>, <<"+", "4">>, <<"-", "4">>, <<" ", "\t", "4", "\r">>, <<"4", "a">>,
     <<"1", "8", "4", "4", "6", "7", "4", "4", "0", "7",
       "3", "7", "0", "9", "5", "5", "1", "6", "1", "6">>}
    \cup {Decimal(n) : n \in 0..MaxIndex}

\* What read_line appends to `input`: a typed line with its newline, or
\* nothing at the end of the input.
Lines == {t \o <<"\n">> : t \in Typed} \cup {<<>>}

\* The parse of every line the operator can type (main, line 214).
Parsed == [line \in Lines |-> parse(trim(line))]

\* Mutant of handle: a line that does not parse is played as index 0.
handle_default(g, r, overflow_checks) ==
    IF r.ok /\ play_panics(g, r.val, overflow_checks)
    THEN [game |-> play_unwind(g, r.val, overflow_checks), pc |-> "panic",
          out |-> "Player", index |-> r.val]
    ELSE [game |-> play(g, IF r.ok THEN r.val ELSE 0), pc |-> "while",
          out |-> IF r.ok THEN "Player" ELSE "Invalid input", index |-> -1]

\* main, lines 214-219: the outcome of one line read from the operator,
\* given r = input.trim().parse() and the build's overflow checks.
handle(g, r, overflow_checks) ==
    IF r.ok
    THEN IF play_panics(g, r.val, overflow_checks)
         THEN [game |-> play_unwind(g, r.val, overflow_checks), pc |-> "panic",
               out |-> "Player", index |-> r.val]
         ELSE [game |-> play(g, r.val), pc |-> "while", out |-> "Player", index |-> -1]
    ELSE [game |-> g, pc |-> "while", out |-> "Invalid input", index |-> -1]

\* main, lines 209-211: the loop goes on; the board and the prompt are printed.
Prompt ==
    /\ caller = "main"
    /\ pc = "while"
    /\ ~game_over(game)
    /\ out' = "Player"
    /\ pc' = "read"
    /\ UNCHANGED <<game, caller, stmt, index, ret, wrapped>>

\* main, lines 212-219: a line is read, parsed and played.
ReadLine ==
    /\ caller = "main"
    /\ pc = "read"
    /\ \E line \in Lines, overflow_checks \in OverflowChecks :
          LET h == handle(game, Parsed[line], overflow_checks)
          IN  /\ game' = h.game
              /\ pc' = h.pc
              /\ out' = h.out
              /\ index' = h.index
              /\ wrapped' = (wrapped \/ h.game.turn < game.turn)
    /\ UNCHANGED <<caller, stmt, ret>>

\* main, line 213: read_line fails and `?` returns the error from main.
ReadError ==
    /\ caller = "main"
    /\ pc = "read"
    /\ pc' = "ioerr"
    /\ UNCHANGED <<game, caller, stmt, index, out, ret, wrapped>>

\* main, lines 209 and 221-227: the loop ends; the outcome is printed.
Report ==
    /\ caller = "main"
    /\ pc = "while"
    /\ game_over(game)
    /\ out' = CASE game.winner = X -> "Player X wins!"
                [] game.winner = O -> "Player O wins!"
                [] game.winner = Empty -> "It's a tie!"
    /\ pc' = "done"
    /\ UNCHANGED <<game, caller, stmt, index, ret, wrapped>>

InitMain ==
    /\ game = Game_new
    /\ caller = "main"
    /\ pc = "while"
    /\ stmt = 0
    /\ index = -1
    /\ out = ""
    /\ ret = {}
    /\ wrapped = FALSE

NextMain == Prompt \/ ReadLine \/ ReadError \/ Report

SpecMain == InitMain /\ [][NextMain]_vars

\* main, lines 212-219 with a line that parses and is played without a
\* panic: play has counted a turn and the loop goes on.
ReadValid ==
    /\ ReadLine
    /\ pc' = "while"
    /\ game'.turn # game.turn

\* main under an operator who keeps supplying lines: the statements of the
\* loop are executed when they can be (lines 209-211 and 221-227), and a line
\* that holds an index in 0..8 is read again and again as long as the
\* program keeps reading (line 213).
FairMain ==
    /\ SpecMain
    /\ WF_vars(Prompt)
    /\ WF_vars(Report)
    /\ SF_vars(ReadValid)

(* --------------------------- is_complete queries ----------------------- *)

\* Every grid of nine tiles.
Grids == [Idx -> [tiles : [Idx -> Tile]]]

\* A query game.is_complete() on the current Game.
Query ==
    /\ caller = "query"
    /\ ret' = {is_complete(game)}
    /\ UNCHANGED <<game, caller, pc, stmt, index, out, wrapped>>

InitGrid ==
    /\ \E b \in Grids : game = [Game_new EXCEPT !.board = b]
    /\ caller = "query"
    /\ pc = "run"
    /\ stmt = 0
    /\ index = -1
    /\ out = ""
    /\ ret = {}
    /\ wrapped = FALSE

NextGrid == Query

SpecGrid == InitGrid /\ [][NextGrid]_vars

(* ------------------------- play on any Game --------------------------- *)

\* The turns of the Games that calls are considered on. play reads turn at
\* two places only: line 89 (turn += 1, which overflows from 255) and
\* is_tie (turn == 9, reached from 8). 9 stands for every other turn.
CallTurns == {8, 9, 255}

\* The Games that are over, with one of these turns: every grid and either
\* player, with no line and no winner (play took the tie branch, lines
\* 94-95, and no call since has seen a line) or with a line of the active
\* player, who is the winner (the win branch, lines 91-93, which does not
\* toggle). Every Game that calls of play leave over is among them.
Games ==
    {g \in [board : Grids, player : {X, O}, winner : Tile, turn : CallTurns, over : {TRUE}] :
        \/ g.winner = Empty /\ ~is_complete(g)
        \/ /\ g.winner = g.player
           /\ \/ any_row_complete(g, g.player)
              \/ any_col_complete(g, g.player)
              \/ any_diagonal_complete(g, g.player)}

\* A caller that holds any of these Games.
InitCall ==
    /\ game \in Games
    /\ caller = "query"
    /\ pc = "run"
    /\ stmt = 0
    /\ index = -1
    /\ out = ""
    /\ ret = {}
    /\ wrapped = FALSE

InitPlay == Init \/ InitCall

NextPlay == Next \/ Query

\* Every Game play can be called on: the Games that the tests and the
\* clients reach from a fresh Game, and the Games that are over. The calls
\* themselves are the values of play, play_panics and play_unwind on the
\* Game of each state, for every index.
SpecPlay == InitPlay /\ [][NextPlay]_vars

(* ------------------------ vocabulary of the claims --------------------- *)

\* The tile at flat index i of a Game.
Cell(g, i) == g.board[i \div 3].tiles[i % 3]

\* The eight lines of the grid, as sets of flat indices.
LineSet ==
    {{0, 1, 2}, {3, 4, 5}, {6, 7, 8},
     {0, 3, 6}, {1, 4, 7}, {2, 5, 8},
     {0, 4, 8}, {2, 4, 6}}

\* Every cell of line L holds the tile m.
LineFull(g, L, m) == \A i \in L : Cell(g, i) = m

\* Some line is fully occupied by one player's mark.
SomeLineFull(g) == \E L \in LineSet : \E m \in {X, O} : LineFull(g, L, m)

\* The number of non-Empty cells.
Marked(g) == Cardinality({i \in 0..8 : Cell(g, i) # Empty})

TypeOK ==
    /\ game.turn \in 0..255
    /\ game.player \in {X, O}
    /\ game.winner \in Tile
    /\ game.over \in BOOLEAN
    /\ \A i \in 0..8 : Cell(game, i) \in Tile
    /\ index \in {-1} \cup 9..(MaxIndex + 1)
    /\ ret \subseteq BOOLEAN
    /\ wrapped \in BOOLEAN

\* Every Game that the callers starting from a fresh Game leave over, with
\* a turn of CallTurns, is one of Games.
OverGamesInGames ==
    (caller # "query" /\ pc # "panic" /\ game.over /\ game.turn \in CallTurns)
        => game \in Games

(* ------------------------------- claims -------------------------------- *)

\* C1 as stated: test_game_is_tie (play 0,1,...,8 on a fresh Game) never
\* fully marks a line with one mark and ends with turn = 9, over = true,
\* winner = Empty and is_tie() = true.
TieTestNoLineNoWinner ==
    caller = "test_game_is_tie" =>
        /\ ~SomeLineFull(game)
        /\ stmt = 9 =>
              /\ game.turn = 9
              /\ game.over
              /\ game.winner = Empty
              /\ is_tie(game)
        /\ ret # {FALSE}

\* C1 amended: test_game_is_tie (play 0,1,...,8 on a fresh Game) marks no
\* line fully before its seventh call, which completes the anti-diagonal
\* 2,4,6 for X; it ends with turn = 9, over = true, winner = X and
\* is_tie() = true.
TieTestEndsWonByX ==
    caller = "test_game_is_tie" =>
        /\ stmt < 7 => ~SomeLineFull(game) /\ ~game.over
        /\ stmt >= 7 => LineFull(game, {2, 4, 6}, X) /\ game.over /\ game.winner = X
        /\ stmt = 9 =>
              /\ game.turn = 9
              /\ game.over
              /\ game.winner = X
              /\ is_tie(game)
        /\ ret # {FALSE}

\* C1 witness: the test has made its nine calls and its assertion passed.
TieTestPassed ==
    /\ caller = "test_game_is_tie"
    /\ stmt = 9
    /\ pc = "passed"
    /\ ret = {TRUE}
    /\ game.winner = X

\* C2 as stated (no resurrection): once over is true, a further play call
\* leaves over true and leaves winner unchanged.
NoResurrection ==
    [][game.over => game'.over /\ game'.winner = game.winner]_vars

\* C3 as stated: in the driving loop the game ends only on a completed line
\* or a full grid: over implies that some line is fully occupied by one
\* player's mark or that all nine cells are non-Empty.
EndsOnLineOrFullGrid ==
    (caller = "main" /\ game.over) => (SomeLineFull(game) \/ Marked(game) = 9)

\* C4 as stated: a line that parses to an integer outside 0..8 is rejected
\* before it reaches the engine: play does not run, the Game is unchanged,
\* the program does not panic and the loop goes back to prompt the player.
OutOfRangeRejected ==
    (caller = "main" /\ pc = "read") =>
        \A line \in Lines :
            (Parsed[line].ok /\ Parsed[line].val \notin 0..8) =>
                \A overflow_checks \in OverflowChecks :
                    LET h == handle(game, Parsed[line], overflow_checks)
                    IN  /\ h.pc = "while"
                        /\ h.game = game

\* C5 (win detection symmetry): in a legal game (every move on an Empty
\* cell, game not over) a move of X that fills the last cell of any of the
\* 8 lines with X leaves winner = X, over = true and is_complete() = true;
\* and test_game_is_complete (0,1,3,2,6) ends in such a state.
WinDetectedOnCompletingMove ==
    /\ [][(/\ caller = "careful"
           /\ ~game.over
           /\ game.player = X
           /\ \E L \in LineSet : LineFull(game', L, X) /\ ~LineFull(game, L, X))
          => (game'.winner = X /\ game'.over /\ is_complete(game'))]_vars
    /\ [](caller = "test_game_is_complete" /\ stmt = 5
          => (game.winner = X /\ game.over /\ is_complete(game)))

\* C5 witness: a legal game that X has just won on the anti-diagonal, with
\* marks outside the line.
WonOnAntiDiagonal ==
    /\ caller = "careful"
    /\ LineFull(game, {2, 4, 6}, X)
    /\ \A L \in LineSet \ {{2, 4, 6}} : ~LineFull(game, L, X)
    /\ game.winner = X
    /\ game.over
    /\ game.turn = 7
    /\ Marked(game) = 7

\* C6 as stated (tie exactness): along any sequence of play calls with
\* index in 0..8, while no line is fully occupied by one mark, over is false
\* in every state with turn < 9, and in the state with turn = 9 over is true
\* and winner is still Empty.
TieExactness ==
    ~SomeLineFull(game) =>
        /\ game.turn < 9 => ~game.over
        /\ game.turn = 9 => (game.over /\ game.winner = Empty)

\* C7 (turn alternation): the active player of a fresh Game is X; every
\* play call that produces neither a win nor a tie, on a game that is going
\* on or on one that is over, at any turn (255 included, where the call
\* that returns wraps turn to 0), hands the turn to the other player; so in
\* every state that is not over the active player is X when turn is even
\* and O when turn is odd.
TurnAlternation ==
    /\ (caller # "query" => game.player = X)
    /\ [][(game'.turn # game.turn /\ ~SomeLineFull(game') /\ game'.turn # 9)
          => (game'.player # game.player /\ game'.player \in {X, O})]_vars
    /\ [](\A i \in 0..8 :
             ~play_panics(game, i, FALSE) =>
                 \A g \in {play(game, i)} :
                     (~SomeLineFull(g) /\ g.turn # 9)
                         => (g.player # game.player /\ g.player \in {X, O}))
    /\ [](~game.over => game.player = IF game.turn % 2 = 0 THEN X ELSE O)

\* C7 witness: eight calls without a win; it is X's turn again.
EightTurnsNoWin ==
    /\ game.turn = 8
    /\ ~game.over
    /\ game.player = X
    /\ ~SomeLineFull(game)

\* C8 as stated (occupied-cell moves): in every reachable state, a call of
\* play on a cell that is not Empty that returns leaves the whole grid
\* unchanged, increments turn by exactly 1 and evaluates the outcome (win,
\* else tie at turn 9, else the active player toggles); two moves on index 0
\* leave cell 0 = X, turn = 2 and X the active player.
OccupiedCellMove ==
    /\ \A i \in 0..8 :
          (Cell(game, i) # Empty /\ ~play_panics(game, i, FALSE)) =>
              \A g \in {play(game, i)} :
                  /\ g.board = game.board
                  /\ g.turn = game.turn + 1
                  /\ SomeLineFull(g) => (g.over /\ g.winner = game.player
                                         /\ g.player = game.player)
                  /\ (~SomeLineFull(g) /\ g.turn = 9) =>
                        (g.over /\ g.winner = game.winner /\ g.player = game.player)
                  /\ (~SomeLineFull(g) /\ g.turn # 9) =>
                        (g.over = game.over /\ g.winner = game.winner
                         /\ g.player = toggle(game.player))
    /\ (~wrapped /\ game.turn = 2 /\ Marked(game) = 1 /\ Cell(game, 0) # Empty) =>
          (Cell(game, 0) = X /\ game.player = X)

\* C9 (grid/turn invariant): as long as every play call targets an Empty
\* cell, the number of non-Empty cells equals turn.
MarkedEqualsTurn ==
    caller \in {"careful"} \cup Tests => Marked(game) = game.turn

\* C9 witness: a full grid after nine calls on Empty cells.
FullGridAfterNine ==
    /\ caller = "careful"
    /\ game.turn = 9
    /\ Marked(game) = 9

\* C10: for every grid, is_complete() returns true exactly when one of the
\* 8 lines holds three X or three O; three Empty cells in a line never make
\* it true.
IsCompleteExact ==
    ret # {} =>
        /\ ret = {SomeLineFull(game)}
        /\ (\A L \in LineSet : \E i \in L : Cell(game, i) = Empty) => ret = {FALSE}

\* C10 witness: a query answered false on a grid whose top row is all Empty
\* and whose other cells are marked.
QueriedFalseWithEmptyRow ==
    /\ caller = "query"
    /\ ret = {FALSE}
    /\ LineFull(game, {0, 1, 2}, Empty)
    /\ Marked(game) = 6

\* The number of cells that hold the tile m.
Count(g, m) == Cardinality({i \in 0..8 : Cell(g, i) = m})

\* C11 (win takes priority over tie): a play call that brings turn to 9 and
\* completes a line for the player who moved, on a game that is going on or
\* on one that is over, leaves over = true and winner = that player, not
\* Empty, while is_tie() returns true.
WinBeforeTie ==
    /\ [][(/\ game'.turn = 9
           /\ game.turn = 8
           /\ \E L \in LineSet :
                 LineFull(game', L, game.player) /\ ~LineFull(game, L, game.player))
          => (/\ game'.over
              /\ game'.winner = game.player
              /\ game'.winner # Empty
              /\ is_tie(game'))]_vars
    /\ [](game.turn = 8 =>
             \A i \in 0..8 :
                 \A g \in {play(game, i)} :
                     (\E L \in LineSet :
                         LineFull(g, L, game.player) /\ ~LineFull(game, L, game.player))
                     => (/\ g.turn = 9
                         /\ g.over
                         /\ g.winner = game.player
                         /\ g.winner # Empty
                         /\ is_tie(g)))

\* C11 witness: X and O alternated for nine turns on Empty cells (five X,
\* four O) and X won, which it can only have done with the ninth mark.
WonOnNinthTurn ==
    /\ caller = "careful"
    /\ game.turn = 9
    /\ Count(game, X) = 5
    /\ Count(game, O) = 4
    /\ game.winner = X
    /\ game.over
    /\ is_tie(game)

\* C12: a line that does not parse as an unsigned integer (the end of the
\* input, an empty line, a letter, a negative number, a number followed by
\* a letter, a number greater than usize::MAX) does not reach play: every field of the Game is the same when
\* the loop comes back to prompt the player.
ParseFailureKeepsGame ==
    /\ \A t \in {<<>>, <<"\n">>, <<"a", "\n">>, <<"-", "4", "\n">>, <<"4", "a", "\n">>} :
          t \in Lines /\ ~Parsed[t].ok
    /\ \E t \in Lines : Len(t) = Len(usize_MAX) + 1 /\ ~Parsed[t].ok
    /\ (caller = "main" /\ pc = "read") =>
          \A line \in Lines :
              ~Parsed[line].ok =>
                  \A h \in {handle(game, Parsed[line], c) : c \in OverflowChecks} :
                      /\ h.game = game
                      /\ h.pc = "while"
                      /\ h.out = "Invalid input"

\* C12 witness: after three turns an unparseable line was read and the loop
\* is back at its head with the same three turns.
InvalidLineAfterThreeTurns ==
    /\ caller = "main"
    /\ pc = "while"
    /\ out = "Invalid input"
    /\ game.turn = 3
    /\ ~game.over

\* C13: in the driving loop the Game is read-only once over is true: no
\* later step changes the grid, turn, the active player, winner or over.
ReadOnlyOnceOver ==
    [][(caller = "main" /\ game.over) => game' = game]_vars

\* C13 witness: the loop has ended on a game that is over and the outcome
\* has been reported.
LoopEndedGameOver ==
    /\ caller = "main"
    /\ pc = "done"
    /\ game.over
    /\ game.turn = 5

\* C14: in the driving loop the turn counter stays within 0..9, and turn = 9
\* implies over = true.
TurnWithinNine ==
    caller = "main" =>
        /\ game.turn \in 0..9
        /\ game.turn = 9 => game.over

\* C14 witness: the loop has ended after nine turns.
LoopEndedAtTurnNine ==
    /\ caller = "main"
    /\ pc = "done"
    /\ game.turn = 9
    /\ game.over

\* C15: the reported outcome matches the board: when the loop has ended,
\* "Player P wins!" is reported (winner = P) only if some line is fully
\* occupied by P's mark, and "It's a tie!" (winner = Empty) only if turn = 9
\* and no line is fully occupied by one mark.
ReportMatchesBoard ==
    (caller = "main" /\ pc = "done") =>
        /\ \A P \in {X, O} :
              (out = "Player " \o P \o " wins!") <=> (game.winner = P)
        /\ (out = "It's a tie!") <=> (game.winner = Empty)
        /\ \A P \in {X, O} :
              game.winner = P => \E L \in LineSet : LineFull(game, L, P)
        /\ game.winner = Empty => (game.turn = 9 /\ ~SomeLineFull(game))

\* C15 witness: a win of O has been reported.
ReportedWinOfO ==
    /\ caller = "main"
    /\ pc = "done"
    /\ out = "Player O wins!"
    /\ \E L \in LineSet : LineFull(game, L, O)

\* C16 (winner owns the line): in the driving loop winner # Empty implies
\* over = true, winner = the active player (who made the last move) and a
\* line fully occupied by winner's own mark.
WinnerOwnsLine ==
    (caller = "main" /\ game.winner # Empty) =>
        /\ game.over
        /\ game.winner = game.player
        /\ \E L \in LineSet : LineFull(game, L, game.winner)
        /\ \A L \in LineSet : ~LineFull(game, L, toggle(game.winner))

\* C16 witness: X has won in the loop while O holds marks too.
LoopWonByX ==
    /\ caller = "main"
    /\ game.winner = X
    /\ game.over
    /\ Count(game, O) >= 2
    /\ \E L \in LineSet : LineFull(game, L, X)

\* C17 (marks are permanent, moves are local): in every Game, going on or
\* over, and for every index in 0..8, play(index), whether it returns or
\* panics on the overflow of turn, leaves every cell other than cell index
\* unchanged, leaves a non-Empty cell with its mark, and puts the active
\* player's mark in cell index when that cell is Empty.
MarksPermanentMovesLocal ==
    [](\A i \in 0..8 :
          \A g \in {play(game, i), play_unwind(game, i, TRUE)} :
              /\ \A j \in 0..8 \ {i} : Cell(g, j) = Cell(game, j)
              /\ Cell(g, i) = IF Cell(game, i) = Empty
                              THEN game.player
                              ELSE Cell(game, i))

\* C17 witness: after three calls two cells are marked, both by X: O's call
\* named an occupied cell and left the grid as it was.
ThreeCallsTwoMarks ==
    /\ caller = "loop"
    /\ game.turn = 3
    /\ Marked(game) = 2
    /\ Cell(game, 0) = X
    /\ Cell(game, 8) = X

\* C19 as stated (no early end): in every state reached by play calls with
\* index in 0..8, occupied-cell moves included, over = true implies
\* turn >= 5.
NoEarlyEnd ==
    game.over => game.turn >= 5

\* C18 (termination): in every run of the loop in which the operator keeps
\* supplying lines with an index in 0..8, over becomes true and the loop
\* ends, after at most nine play calls. A run in which read_line fails is a
\* run in which the operator stopped supplying lines.
LoopTerminates ==
    <>(\/ pc = "ioerr"
       \/ (pc = "done" /\ game.over /\ game.turn <= 9))

====
